---------------------------- MODULE Spec2Model ----------------------------
(***************************************************************************)
(* A model of pandros (src/pandros/__init__.py): the column classifiers,   *)
(* classifier arbitration, person-list assembly, header-row discovery and  *)
(* result write-back.                                                      *)
(*                                                                         *)
(* Strings are sequences of one-character strings, so that the regular     *)
(* expressions, strip(), replace() and slicing of the source are computed  *)
(* character by character.  A missing cell (NaN / pd.NA) is the value NA.  *)
(*                                                                         *)
(* The outcome of running a piece of code is one of                        *)
(*   Ok(v)     it returned v,                                              *)
(*   Err(e)    it raised the ValidationException (or subclass) e,          *)
(*   Crash(x)  it raised an exception of another type, named x.            *)
(***************************************************************************)
EXTENDS Integers, Sequences, FiniteSets, TLC

VARIABLES
    pc,                 \* position of the driver of the run
    column,             \* SpecColumn: the column given to ColumnAnalysis
    colanalysis,        \* SpecColumn: outcome of ColumnAnalysis(column)
    sheet,              \* Spec: the sheet given to Analysis
    columnanalyses_or,  \* Spec: outcome of the ValidOr list (line 168)
    interpretation,     \* Spec: outcome of Analysis(sheet)
    path,               \* SpecFile: the path given to FileAnalysis
    file,               \* SpecFile: the rows of the file at that path
    interpretations,    \* SpecFile: ValidOr(SheetReadAnalysis) per offset
    fileanalysis,       \* SpecFile: outcome of FileAnalysis(path)
    results,            \* SpecCollector: ResultCollector.results
    written,            \* SpecCollector: table last handed to write_callback
    ncallbacks,         \* SpecCollector: number of write_callback calls
    ncalls,             \* SpecCollector: number of set_results calls
    latest,             \* SpecCollector: most recent value per (row, key)
    ident,              \* SpecPnr: the raw identifier string
    pnr1,               \* SpecPnr: the identifier normalised once
    pnr2                \* SpecPnr: the identifier normalised twice

vars == <<pc, column, colanalysis, sheet, columnanalyses_or, interpretation,
          path, file, interpretations, fileanalysis,
          results, written, ncallbacks, ncalls, latest, ident, pnr1, pnr2>>

columnVars    == <<column, colanalysis>>
sheetVars     == <<sheet, columnanalyses_or, interpretation>>
fileVars      == <<path, file, interpretations, fileanalysis>>
collectorVars == <<results, written, ncallbacks, ncalls, latest>>
pnrVars       == <<ident, pnr1, pnr2>>

-----------------------------------------------------------------------------
(* Bounds of the model.                                                    *)
MaxColRows == 5     \* rows of a column in SpecColumn
MaxRows    == 5     \* rows of a sheet in Spec
MaxHead    == 4     \* leading (garbage or header) rows of a file
MaxData    == 4     \* data rows of a file
MaxCalls   == 3     \* set_results calls in SpecCollector
MaxSuffix  == 4     \* characters after the date part of an identifier

-----------------------------------------------------------------------------
(* Outcomes and diagnostics.                                               *)
Ok(v)    == [k |-> "ok", v |-> v]
Err(e)   == [k |-> "err", e |-> e]
Crash(x) == [k |-> "crash", x |-> x]

\* ValidationException(msg) raised "from" cause: cause is <<>> or <<c>>.
ValidationException(msg, cause) ==
    [type |-> "ValidationException", msg |-> msg, cause |-> cause]

\* self.multi = list(set(multi)); sort(): equality of diagnostics is equality
\* of their rendered text, so the list is the set of distinct diagnostics.
MultiValidationException(multi, msg) ==
    [type |-> "MultiValidationException", msg |-> msg,
     multi |-> {multi[i] : i \in DOMAIN multi}]

IsValidationException(e) ==
    e.type \in {"ValidationException", "MultiValidationException"}

-----------------------------------------------------------------------------
(* Characters and strings.                                                 *)
NA == <<"NA">>      \* the missing value; no string has a 2-character element

Uppers == <<"A","B","C","D","E","F","G","H","I","J","K","L","M","N","O","P",
            "Q","R","S","T","U","V","W","X","Y","Z","Ö">>
Lowers == <<"a","b","c","d","e","f","g","h","i","j","k","l","m","n","o","p",
            "q","r","s","t","u","v","w","x","y","z","ö">>
Digits == {"0","1","2","3","4","5","6","7","8","9"}

Alphas == {Uppers[i] : i \in DOMAIN Uppers} \cup {Lowers[i] : i \in DOMAIN Lowers}
LowerOf == [c \in {Uppers[i] : i \in DOMAIN Uppers} |->
               Lowers[CHOOSE i \in DOMAIN Uppers : c = Uppers[i]]]

isalpha(c) == c \in Alphas
isspace(c) == c \in {" ", "\t", "\n"}
isdigit(c) == c \in Digits
isword(c)  == isalpha(c) \/ isdigit(c) \/ c = "_"          \* \w
lower(c)   == IF c \in DOMAIN LowerOf THEN LowerOf[c] ELSE c
lowerstr(s) == [i \in DOMAIN s |-> lower(s[i])]            \* flags=re.I

RECURSIVE lstrip(_)
lstrip(s) == IF Len(s) > 0 /\ isspace(s[1]) THEN lstrip(Tail(s)) ELSE s
RECURSIVE rstrip(_)
rstrip(s) == IF Len(s) > 0 /\ isspace(s[Len(s)])
             THEN rstrip(SubSeq(s, 1, Len(s) - 1)) ELSE s
strip(s)  == rstrip(lstrip(s))

\* s.replace(c, "")
RECURSIVE remove(_, _)
remove(s, c) == IF s = <<>> THEN <<>>
                ELSE IF s[1] = c THEN remove(Tail(s), c)
                ELSE <<s[1]>> \o remove(Tail(s), c)

\* the pattern p occurs in s at position i
HasAt(s, p, i) ==
    /\ i >= 1
    /\ i + Len(p) - 1 <= Len(s)
    /\ \A j \in 1..Len(p) : s[i + j - 1] = p[j]

\* pre.*post matched from the start of s ("." matches no newline)
PrefixDotStar(s, pre, post) ==
    /\ HasAt(s, pre, 1)
    /\ \E j \in (Len(pre) + 1)..Len(s) :
          /\ HasAt(s, post, j)
          /\ \A m \in (Len(pre) + 1)..(j - 1) : s[m] # "\n"

SetMin(S) == CHOOSE x \in S : \A y \in S : x <= y
SetMax(S) == CHOOSE x \in S : \A y \in S : x >= y

S_last == <<"l", "a", "s", "t">>
S_family == <<"f", "a", "m", "i", "l", "y">>
S_name == <<"n", "a", "m", "e">>
S_efternamn == <<"e", "f", "t", "e", "r", "n", "a", "m", "n">>
S_first == <<"f", "i", "r", "s", "t">>
S_given == <<"g", "i", "v", "e", "n">>
S_fornamn == <<"f", "ö", "r", "n", "a", "m", "n">>
S_person == <<"p", "e", "r", "s", "o", "n">>
S_t == <<"t">>
S_number == <<"n", "u", "m", "b", "e", "r">>
S_nmr == <<"n", "m", "r">>
S_nr == <<"n", "r">>
S_nummer == <<"n", "u", "m", "m", "e", "r">>
S_birth == <<"b", "i", "r", "t", "h">>
S_day == <<"d", "a", "y">>
S_date == <<"d", "a", "t", "e">>
S_fodelse == <<"f", "ö", "d", "e", "l", "s", "e">>
S_dag == <<"d", "a", "g">>
S_datum == <<"d", "a", "t", "u", "m">>
S_mail == <<"m", "a", "i", "l">>
S_post == <<"p", "o", "s", "t">>
S_adress == <<"a", "d", "r", "e", "s", "s">>
S_address == <<"a", "d", "d", "r", "e", "s", "s">>
S_NAstr == <<"<", "N", "A", ">">>

-----------------------------------------------------------------------------
(* Header patterns: NAME_RE.match(name), case-insensitive, anchored at the *)
(* start of the stripped header.                                           *)

\* "((last|family).*name|efternamn)"
FamilyNameRE(name) ==
    LET s == lowerstr(name) IN
    \/ \E p \in {S_last, S_family} : PrefixDotStar(s, p, S_name)
    \/ HasAt(s, S_efternamn, 1)

\* "((first|given).*name|förnamn)"
GivenNameRE(name) ==
    LET s == lowerstr(name) IN
    \/ \E p \in {S_first, S_given} : PrefixDotStar(s, p, S_name)
    \/ HasAt(s, S_fornamn, 1)

\* "((person|t).*(number|nmr|nr|nummer))|(birth(day|date)|födelse(dag|datum))"
PnrNameRE(name) ==
    LET s == lowerstr(name) IN
    \/ \E p \in {S_person, S_t} :
          \E q \in {S_number, S_nmr, S_nr, S_nummer} : PrefixDotStar(s, p, q)
    \/ HasAt(s, S_birth, 1) /\ \E q \in {S_day, S_date} : HasAt(s, q, 6)
    \/ HasAt(s, S_fodelse, 1) /\ \E q \in {S_dag, S_datum} : HasAt(s, q, 8)

\* "(e*-*mail|e*-*post)(adress|address)"
EmailNameRE(name) ==
    LET s == lowerstr(name) IN
    \E a \in 0..Len(s) : \E b \in 0..Len(s) :
        /\ \A i \in 1..a : s[i] = "e"
        /\ \A i \in (a + 1)..(a + b) : i <= Len(s) /\ s[i] = "-"
        /\ \E w \in {S_mail, S_post} : HasAt(s, w, a + b + 1)
        /\ \E w \in {S_adress, S_address} : HasAt(s, w, a + b + 5)

\* the NAME_RE of the classifier of each key
NAME_RE(key, name) ==
    CASE key = "family_name" -> FamilyNameRE(name)
      [] key = "given_name"  -> GivenNameRE(name)
      [] key = "pnr"         -> PnrNameRE(name)
      [] key = "email"       -> EmailNameRE(name)

-----------------------------------------------------------------------------
(* Columns.  A column (a pandas Series) is [name, index, cells]: its       *)
(* header, its row labels and, position by position, its cells.            *)

Series(name, index, cells) == [name |-> name, index |-> index, cells |-> cells]

\* [i for i in column.index if <row i passes>]: the labels, in index order,
\* of the positions whose flag is TRUE
LabelsWhere(index, flags) ==
    LET ps == SelectSeq([p \in 1..Len(index) |-> p], LAMBDA p : flags[p])
    IN  [n \in 1..Len(ps) |-> index[ps[n]]]

\* 100 * len(valid_rows) / num_rows < 80, for num_rows > 0
BelowThreshold(nvalid, num_rows) == 100 * nvalid < 80 * num_rows

\* NameColumn.__init__.istext
istext(s) ==
    IF s = NA THEN FALSE
    ELSE LET t == strip(s) IN
         Len(t) > 1 /\ \A i \in 1..Len(t) : isalpha(t[i]) \/ isspace(t[i])

\* str(row).strip() of a cell of column.convert_dtypes()
NameOf(cell) == IF cell = NA THEN S_NAstr ELSE strip(cell)

\* The classified column a classifier returns.
Classified(key, col, found_data, valid_rows) ==
    [key |-> key, column |-> col, found_data |-> found_data,
     valid_rows |-> valid_rows]

\* The header checks every classifier starts with: <<>> when the header is
\* accepted, else <<e>> with the ValidationException raised.
HeaderCheck(key, col) ==
    IF col.name = NA
    THEN <<ValidationException(<<"Could not parse column name", col.name>>,
                               <<"AttributeError">>)>>
    ELSE IF ~NAME_RE(key, strip(col.name))
    THEN <<ValidationException(<<"Unrecognized column name", col.name>>, <<>>)>>
    ELSE <<>>

NameColumn(KEY, col) ==
    LET num_rows == Len(col.cells)
        Classify(hdr, valid_rows) ==
            IF hdr # <<>> THEN Err(hdr[1])
            ELSE IF num_rows = 0 THEN Crash("ZeroDivisionError")
            ELSE IF BelowThreshold(Len(valid_rows), num_rows)
            THEN Err(ValidationException(
                     <<"Content of column is not mostly alphabetical", col.name>>,
                     <<>>))
            ELSE Ok(Classified(KEY, col,
                               [p \in 1..num_rows |-> NameOf(col.cells[p])],
                               valid_rows))
    IN  Classify(HeaderCheck(KEY, col),
                 LabelsWhere(col.index,
                             [p \in DOMAIN col.cells |-> istext(col.cells[p])]))

FamilyNameColumn(col) == NameColumn("family_name", col)
GivenNameColumn(col)  == NameColumn("given_name", col)

(* PnrColumn: str.extract of                                               *)
(*   (((19|20)\d\d|\d\d)[01]\d[0-3]\d *((-|) *[T\d][\dF]\d\d|))            *)
(* The first match, leftmost start; alternatives in the regex's order.     *)
DigitAt(s, i) == i <= Len(s) /\ isdigit(s[i])

\* [01]\d[0-3]\d at position i
MonthDayAt(s, i) ==
    /\ i + 3 <= Len(s)
    /\ s[i] \in {"0", "1"} /\ isdigit(s[i + 1])
    /\ s[i + 2] \in {"0", "1", "2", "3"} /\ isdigit(s[i + 3])

\* the position after ((19|20)\d\d|\d\d)[01]\d[0-3]\d matched at i, or 0
DateEnd(s, i) ==
    IF /\ i + 3 <= Len(s)
       /\ s[i] \in {"1", "2"}
       /\ (s[i] = "1" => s[i + 1] = "9") /\ (s[i] = "2" => s[i + 1] = "0")
       /\ isdigit(s[i + 2]) /\ isdigit(s[i + 3])
       /\ MonthDayAt(s, i + 4)
    THEN i + 8
    ELSE IF DigitAt(s, i) /\ DigitAt(s, i + 1) /\ MonthDayAt(s, i + 2)
    THEN i + 6
    ELSE 0

\* the position after " *" matched greedily at i
RECURSIVE SkipSpaces(_, _)
SkipSpaces(s, i) == IF i <= Len(s) /\ s[i] = " " THEN SkipSpaces(s, i + 1) ELSE i

\* [T\d][\dF]\d\d at position i
SuffixAt(s, i) ==
    /\ i + 3 <= Len(s)
    /\ (s[i] = "T" \/ isdigit(s[i]))
    /\ (s[i + 1] = "F" \/ isdigit(s[i + 1]))
    /\ isdigit(s[i + 2]) /\ isdigit(s[i + 3])

\* the position after the whole pattern matched at i, or 0
PnrMatchEnd(s, i) ==
    LET d == DateEnd(s, i) IN
    IF d = 0 THEN 0
    ELSE LET q == SkipSpaces(s, d)
             r == IF q <= Len(s) /\ s[q] = "-" THEN SkipSpaces(s, q + 1) ELSE q
         IN  IF SuffixAt(s, r) THEN r + 4 ELSE q

PnrExtract(cell) ==
    IF cell = NA THEN NA
    ELSE LET starts == {i \in 1..Len(cell) : PnrMatchEnd(cell, i) # 0} IN
         IF starts = {} THEN NA
         ELSE LET i == SetMin(starts) IN SubSeq(cell, i, PnrMatchEnd(cell, i) - 1)

PnrColumn(col) ==
    LET ValidRowsOf(pnrs) ==
            LabelsWhere(pnrs.index,
                        [p \in DOMAIN pnrs.cells |-> pnrs.cells[p] # NA])
        Classify(hdr, pnrs) ==
            IF hdr # <<>> THEN Err(hdr[1])
            ELSE IF Len(pnrs.cells) = 0 THEN Crash("ZeroDivisionError")
            ELSE IF BelowThreshold(Len(ValidRowsOf(pnrs)), Len(pnrs.cells))
            THEN Err(ValidationException(<<"Content does not match pnr data">>, <<>>))
            ELSE Ok(Classified("pnr", col, pnrs.cells, ValidRowsOf(pnrs)))
    IN  Classify(HeaderCheck("pnr", col),
                 Series(col.name, col.index,
                        [p \in 1..Len(col.cells) |-> PnrExtract(col.cells[p])]))

(* EmailColumn: str.extract of ([\w\.]+@\w[\w\.]*\w\w), flags=re.U.        *)
isworddot(c) == isword(c) \/ c = "."

\* the position after the pattern matched at i, or 0
EmailMatchEnd(s, i) ==
    LET ats == {a \in (i + 1)..Len(s) :
                   s[a] = "@" /\ \A m \in i..(a - 1) : isworddot(s[m])}
    IN  IF ats = {} THEN 0
        ELSE LET a == SetMin(ats)
                 ends == {e \in (a + 4)..(Len(s) + 1) :
                             /\ isword(s[a + 1])
                             /\ \A m \in (a + 2)..(e - 3) : isworddot(s[m])
                             /\ isword(s[e - 2]) /\ isword(s[e - 1])}
             IN  IF ends = {} THEN 0 ELSE SetMax(ends)

EmailExtract(cell) ==
    IF cell = NA THEN NA
    ELSE LET starts == {i \in 1..Len(cell) : EmailMatchEnd(cell, i) # 0} IN
         IF starts = {} THEN NA
         ELSE LET i == SetMin(starts) IN SubSeq(cell, i, EmailMatchEnd(cell, i) - 1)

EmailColumn(col) ==
    LET ValidRowsOf(emails) ==
            LabelsWhere(emails.index,
                        [p \in DOMAIN emails.cells |-> emails.cells[p] # NA])
        Classify(hdr, emails) ==
            IF hdr # <<>> THEN Err(hdr[1])
            ELSE IF Len(emails.cells) = 0 THEN Crash("ZeroDivisionError")
            ELSE IF BelowThreshold(Len(ValidRowsOf(emails)), Len(emails.cells))
            THEN Err(ValidationException(<<"Content is not valid email addresses">>,
                                         <<>>))
            ELSE Ok(Classified("email", col, emails.cells, ValidRowsOf(emails)))
    IN  Classify(HeaderCheck("email", col),
                 Series(col.name, col.index,
                        [p \in 1..Len(col.cells) |-> EmailExtract(col.cells[p])]))

-----------------------------------------------------------------------------
(* ValidOr and classifier arbitration.                                     *)
None == <<>>

\* ValidOr(f, ...) for an f that returned or raised a ValidationException:
\* res and e are None or a one-element sequence.  Any other exception is not
\* caught and leaves no ValidOr object.
ValidOr(outcome) ==
    IF outcome.k = "ok" THEN [res |-> <<outcome.v>>, e |-> None]
    ELSE [res |-> None, e |-> <<outcome.e>>]

Crashed(outcomes) == {i \in DOMAIN outcomes : outcomes[i].k = "crash"}

\* InterpretationCandidates(classes).find_one(...), given the outcome of
\* calling each class in order.  The list comprehension stops at the first
\* call that raises something ValidOr does not catch.
find_one(outcomes) ==
    IF Crashed(outcomes) # {} THEN outcomes[SetMin(Crashed(outcomes))]
    ELSE LET interpretation_candidates ==
                 [i \in DOMAIN outcomes |-> ValidOr(outcomes[i])]
             valid_interpretations ==
                 SelectSeq(interpretation_candidates, LAMBDA c : c.res # None)
         IN  IF Len(valid_interpretations) = 0
             THEN Err(MultiValidationException(
                      [i \in DOMAIN outcomes |-> interpretation_candidates[i].e[1]],
                      <<"No valid interpretatons">>))
             ELSE IF Len(valid_interpretations) > 1
             THEN Err(ValidationException(<<"Too many valid interpretatons">>, None))
             ELSE Ok(valid_interpretations[1].res[1])

\* the four classifiers run on one column, in the order of line 264
Classifiers(col) ==
    <<FamilyNameColumn(col), GivenNameColumn(col), PnrColumn(col), EmailColumn(col)>>

ColumnAnalysis(col) ==
    LET Analysed(r) ==
            IF r.k = "ok" THEN Ok([column |-> col, interpretation |-> r.v]) ELSE r
    IN  Analysed(find_one(Classifiers(col)))

-----------------------------------------------------------------------------
(* Person and PersonList.                                                  *)

\* lines 248-252 with the two length checks in the other order
NormalizePnrSwapped(raw) ==
    LET a == remove(remove(raw, "-"), " ")
        b == IF Len(a) = 10 /\ SubSeq(a, 7, 8) = <<"T", "F">> THEN SubSeq(a, 1, 6) ELSE a
    IN  IF Len(b) = 12 THEN SubSeq(b, 3, 12) ELSE b

\* Person.__init__, lines 248-252
NormalizePnr(raw) ==
    LET a == remove(remove(raw, "-"), " ")
        b == IF Len(a) = 12 THEN SubSeq(a, 3, 12) ELSE a
    IN  IF Len(b) = 10 /\ SubSeq(b, 7, 8) = <<"T", "F">> THEN SubSeq(b, 1, 6) ELSE b

\* rows of PersonList: per role key, the found_data of the column bound to
\* it, position by position (lines 207-210; every role column has the
\* sheet's index, so assigning a list or a Series gives the same frame).
\* Person(rows, index): rows[index:index+1] slices by POSITION, so the row
\* read is the one at 0-based position index.
Person(rows, nrows, index) ==
    IF index < 0 \/ index + 1 > nrows THEN Crash("IndexError")
    ELSE IF rows["pnr"][index + 1] = NA THEN Crash("AttributeError")
    ELSE Ok([index |-> index,
             pnr |-> NormalizePnr(rows["pnr"][index + 1]),
             given_name |-> rows["given_name"][index + 1],
             family_name |-> rows["family_name"][index + 1],
             email |-> IF "email" \in DOMAIN rows
                       THEN <<rows["email"][index + 1]>> ELSE None])

Keys == <<"pnr", "family_name", "given_name", "email">>
Required(key) == key # "email"
RequiredKeys == {Keys[i] : i \in {j \in DOMAIN Keys : Required(Keys[j])}}

ToSet(seq) == {seq[i] : i \in DOMAIN seq}

\* a set of integers as an ascending sequence (list(...); sort())
RECURSIVE Sorted(_)
Sorted(S) == IF S = {} THEN <<>> ELSE <<SetMin(S)>> \o Sorted(S \ {SetMin(S)})

\* lines 214-221: the running intersection over the required keys, in order
RECURSIVE IntersectValidRows(_, _, _)
IntersectValidRows(cols, ks, acc) ==
    IF ks = <<>> THEN acc
    ELSE IF ~Required(ks[1]) THEN IntersectValidRows(cols, Tail(ks), acc)
    ELSE LET column_valid_rows == ToSet(cols[ks[1]].interpretation.valid_rows) IN
         IntersectValidRows(cols, Tail(ks),
             IF acc = None THEN <<column_valid_rows>>
             ELSE <<acc[1] \cap column_valid_rows>>)

\* lines 214-224 with the mutation that the optional role narrows too
ValidRowsAllKeys(cols) ==
    Sorted({i \in ToSet(cols["pnr"].interpretation.valid_rows) :
               \A key \in DOMAIN cols : i \in ToSet(cols[key].interpretation.valid_rows)})

\* lines 214-224: valid_rows as the sorted list
ValidRows(cols) == Sorted(IntersectValidRows(cols, Keys, None)[1])

OkColumns(cors) == {i \in DOMAIN cors : cors[i].res # None}
KeyOf(cors, i)  == cors[i].res[1].interpretation.key
MatchingColumns(cors, key) == {i \in OkColumns(cors) : KeyOf(cors, i) = key}

\* lines 183-187 with the check left out
NoDuplicateKeys(cors) == {}

\* lines 183-187: the positions in Keys of the required keys that more than
\* one successfully classified column has
DuplicateKeys(cors) ==
    {n \in DOMAIN Keys :
        Required(Keys[n]) /\ Cardinality(MatchingColumns(cors, Keys[n])) > 1}

PersonList(cors) ==
    LET \* line 174: a dict comprehension, the last column of a key wins
        bound == {KeyOf(cors, i) : i \in OkColumns(cors)}
        columns == [key \in bound |-> cors[SetMax(MatchingColumns(cors, key))].res[1]]
        missing == {n \in DOMAIN Keys : Required(Keys[n]) /\ Keys[n] \notin bound}
        failed == SelectSeq(cors, LAMBDA c : c.res = None)
        column_row_sizes == {Len(columns[key].column.cells) : key \in bound}
    IN  IF DuplicateKeys(cors) # {}
        THEN Err(ValidationException(<<"multiple columns for {key}">>, None))
        ELSE IF missing # {}
        THEN Err(MultiValidationException(
                 [i \in DOMAIN failed |-> failed[i].e[1]],
                 <<"not enough data, missing", Keys[SetMin(missing)]>>))
        ELSE IF SetMin(column_row_sizes) # SetMax(column_row_sizes)
        THEN Err(ValidationException(<<"mismatched columns">>, None))
        ELSE IF "email" \notin bound
        THEN Crash("KeyError")          \* line 210: self.columns['email']['column']
        ELSE
        LET rows == [key \in bound |-> columns[key].interpretation.found_data]
            nrows == SetMin(column_row_sizes)
            valid_rows == ValidRows(columns)
            made == [n \in DOMAIN valid_rows |-> Person(rows, nrows, valid_rows[n])]
        IN  IF Crashed(made) # {} THEN made[SetMin(Crashed(made))]
            ELSE Ok([items_type |-> "persons",
                     columns |-> columns,
                     persons |-> [n \in DOMAIN made |-> made[n].v]])

\* sheet[column]
SheetColumn(sh, c) == Series(sh.columns[c].name, sh.index, sh.columns[c].cells)

\* line 168: [ValidOr(ColumnAnalysis, sheet[column]) for column in sheet.columns]
\* Ok(list of ValidOr), or the first exception ValidOr did not catch.
ColumnAnalyses(sh) ==
    LET Collected(outs) ==
            IF Crashed(outs) # {} THEN outs[SetMin(Crashed(outs))]
            ELSE Ok([c \in DOMAIN outs |-> ValidOr(outs[c])])
    IN  Collected([c \in DOMAIN sh.columns |-> ColumnAnalysis(SheetColumn(sh, c))])

\* line 170: InterpretationCandidates([PersonList]).find_one(columnanalyses_or)
Interpret(cors) == find_one(<<PersonList(cors)>>)

\* Analysis(sheet): ColumnsAnalysis(sheet).interpretation
Analysis(sh) ==
    LET Interpreted(cors) == IF cors.k # "ok" THEN cors ELSE Interpret(cors.v)
    IN  Interpreted(ColumnAnalyses(sh))

-----------------------------------------------------------------------------
(* Input values.                                                           *)
H_LastName == <<"L", "a", "s", "t", " ", "n", "a", "m", "e">>
H_Efternamn == <<" ", "E", "f", "t", "e", "r", "n", "a", "m", "n", " ">>
H_FirstName == <<"F", "i", "r", "s", "t", " ", "n", "a", "m", "e">>
H_GivenName == <<"G", "i", "v", "e", "n", " ", "n", "a", "m", "e">>
H_Fornamn == <<"F", "ö", "r", "n", "a", "m", "n">>
H_Personnummer == <<"P", "e", "r", "s", "o", "n", "n", "u", "m", "m", "e", "r">>
H_Birthdate == <<"B", "i", "r", "t", "h", "d", "a", "t", "e">>
H_Epostadress == <<"E", "-", "p", "o", "s", "t", "a", "d", "r", "e", "s", "s">>
H_EmailSp == <<"E", "m", "a", "i", "l", " ", "a", "d", "d", "r", "e", "s", "s">>
H_Phone == <<"P", "h", "o", "n", "e">>
V_Ek == <<"E", "k">>
V_Li == <<"L", "i">>
V_Bo == <<"B", "o">>
V_AfEk == <<"a", "f", " ", "E", "k">>
V_Punct == <<"?", "!">>
V_A == <<" ", "A", " ">>
V_Pnr11 == <<"9", "0", "0", "1", "0", "1", "-", "1", "2", "3", "4">>
V_Pnr13 == <<"1", "9", "8", "5", "0", "5", "0", "5", "-", "4", "3", "2", "1">>
V_PnrTF == <<"7", "0", "1", "2", "3", "1", " ", "-", " ", "T", "F", "1", "2">>
V_Mail1 == <<"a", "@", "b", "c", "d">>
V_Mail2 == <<"<", "b", ".", "c", "@", "d", ".", "e", "f", ">">>
V_MailBad == <<"a", "@", "b">>
V_Course == <<"C", "o", "u", "r", "s", "e", " ", "l", "i", "s", "t">>

Pending == [k |-> "pending"]

-----------------------------------------------------------------------------
(* SpecColumn: ColumnAnalysis on one column.                               *)
NameHeaders  == {H_LastName, H_Efternamn, H_GivenName, H_Fornamn, H_Phone, NA}
NameCells    == {V_Ek, V_AfEk, V_Punct, V_A, NA}
PnrHeaders   == {H_Personnummer, H_Birthdate}
PnrCells     == {V_Pnr11, V_PnrTF, V_Ek, NA}
EmailHeaders == {H_Epostadress, H_EmailSp}
EmailCells   == {V_Mail2, V_MailBad, NA}

SeqsUpTo(S, n) == UNION {[1..m -> S] : m \in 0..n}

RangeIndex(n) == [p \in 1..n |-> p - 1]

InputColumns ==
    {Series(h, RangeIndex(Len(cells)), cells) :
        h \in NameHeaders, cells \in SeqsUpTo(NameCells, MaxColRows)}
    \cup {Series(h, RangeIndex(Len(cells)), cells) :
        h \in PnrHeaders, cells \in SeqsUpTo(PnrCells, MaxColRows - 1)}
    \cup {Series(h, RangeIndex(Len(cells)), cells) :
        h \in EmailHeaders, cells \in SeqsUpTo(EmailCells, MaxColRows - 1)}

IdleColumn == Series(NA, <<>>, <<>>)
IdleSheet  == [index |-> <<>>, columns |-> <<>>]

IdleColumnVars == column = IdleColumn /\ colanalysis = Pending
IdleSheetVars ==
    sheet = IdleSheet /\ columnanalyses_or = <<>> /\ interpretation = Pending
IdleFileVars ==
    path = "" /\ file = <<>> /\ interpretations = <<>> /\ fileanalysis = Pending
IdleCollectorVars ==
    /\ results = [columns |-> <<>>, index |-> <<>>, data |-> <<>>]
    /\ written = None /\ ncallbacks = 0 /\ ncalls = 0 /\ latest = <<>>
IdlePnrVars == ident = <<>> /\ pnr1 = <<>> /\ pnr2 = <<>>

InitColumn ==
    /\ pc = "column"
    /\ column \in InputColumns
    /\ colanalysis = Pending
    /\ IdleSheetVars /\ IdleFileVars /\ IdleCollectorVars /\ IdlePnrVars

\* ValidOr(ColumnAnalysis, column), before ValidOr's try/except
ColumnAnalysisStep ==
    /\ pc = "column"
    /\ colanalysis' = ColumnAnalysis(column)
    /\ pc' = "columndone"
    /\ UNCHANGED <<column, sheetVars, fileVars, collectorVars, pnrVars>>

NextColumn == ColumnAnalysisStep

SpecColumn == InitColumn /\ [][NextColumn]_vars

-----------------------------------------------------------------------------
(* Spec: Analysis(sheet) on a sheet.                                       *)

\* A sheet layout: per column its header and the role whose cells it holds.
LayoutFull == <<[name |-> H_Personnummer, role |-> "pnr"],
                [name |-> H_FirstName, role |-> "given_name"],
                [name |-> H_LastName, role |-> "family_name"],
                [name |-> H_Epostadress, role |-> "email"]>>
LayoutNoEmail == SubSeq(LayoutFull, 1, 3)
LayoutNoPnr == <<[name |-> H_Phone, role |-> "pnr"]>> \o SubSeq(LayoutFull, 2, 4)
LayoutDupGiven == <<[name |-> H_GivenName, role |-> "given_name"]>> \o LayoutFull
Layouts == {LayoutFull, LayoutNoEmail, LayoutNoPnr, LayoutDupGiven}

Roles == {"pnr", "given_name", "family_name", "email"}

\* the good cell of a role at position p: neighbouring rows differ
GoodCells == [pnr |-> <<V_Pnr11, V_Pnr13, V_PnrTF>>,
              given_name |-> <<V_Li, V_Bo, V_Ek>>,
              family_name |-> <<V_Ek, V_AfEk, V_Li>>,
              email |-> <<V_Mail1, V_Mail2, V_Mail1>>]
BadCells == [pnr |-> NA, given_name |-> V_Punct, family_name |-> V_A,
             email |-> V_MailBad]

GoodCell(role, p) == GoodCells[role][((p - 1) % 3) + 1]

\* The sheet with n rows laid out as layout, the cell of each role bad at
\* position bad[role] (0: nowhere), indexed 0..n-1 (shift 0) or 1..n (shift 1).
MakeSheet(layout, n, bad, shift) ==
    [index |-> [p \in 1..n |-> p - 1 + shift],
     columns |-> [c \in DOMAIN layout |->
        [name |-> layout[c].name,
         cells |-> [p \in 1..n |->
                      IF bad[layout[c].role] = p THEN BadCells[layout[c].role]
                      ELSE GoodCell(layout[c].role, p)]]]]

\* Bad positions: any per role, or per role none, its own row or the last.
AnyBad(n) == [Roles -> 0..n]
OwnRow == [pnr |-> 1, given_name |-> 2, family_name |-> 3, email |-> 4]
FewBad(n) == {bad \in [Roles -> 0..n] :
                 \A r \in Roles : bad[r] \in {0, OwnRow[r], n}}

InputSheets ==
    UNION {{MakeSheet(LayoutFull, n, bad, 0) : bad \in AnyBad(n)} : n \in 0..MaxRows}
    \cup UNION {{MakeSheet(layout, n, bad, shift) : bad \in FewBad(n),
                    layout \in Layouts, shift \in {0, 1}} : n \in 0..MaxRows}

Init ==
    /\ pc = "columns"
    /\ sheet \in InputSheets
    /\ columnanalyses_or = <<>>
    /\ interpretation = Pending
    /\ IdleColumnVars /\ IdleFileVars /\ IdleCollectorVars /\ IdlePnrVars

\* ColumnsAnalysis.__init__, line 168
ColumnsAnalysisStep ==
    /\ pc = "columns"
    /\ LET Store(cors) ==
               IF cors.k = "ok"
               THEN /\ columnanalyses_or' = cors.v
                    /\ pc' = "personlist"
                    /\ UNCHANGED interpretation
               ELSE /\ interpretation' = cors
                    /\ pc' = "done"
                    /\ UNCHANGED columnanalyses_or
       IN  Store(ColumnAnalyses(sheet))
    /\ UNCHANGED <<sheet, columnVars, fileVars, collectorVars, pnrVars>>

\* ColumnsAnalysis.__init__, line 170
PersonListStep ==
    /\ pc = "personlist"
    /\ interpretation' = Interpret(columnanalyses_or)
    /\ pc' = "done"
    /\ UNCHANGED <<sheet, columnanalyses_or, columnVars, fileVars, collectorVars,
                   pnrVars>>

Next == ColumnsAnalysisStep \/ PersonListStep

Spec == Init /\ [][Next]_vars

-----------------------------------------------------------------------------
(* Claims about Analysis(sheet), checked under Spec.                       *)

Assembled == pc = "done" /\ interpretation.k = "ok"
PersonIndexes == [n \in DOMAIN interpretation.v.persons |->
                     interpretation.v.persons[n].index]
RoleValidRows(key) ==
    ToSet(interpretation.v.columns[key].interpretation.valid_rows)

\* the position in the sheet of the row labelled i
PositionOf(i) == CHOOSE p \in DOMAIN sheet.index : sheet.index[p] = i

\* C1: when exactly one column classifies for each required role and none
\* classifies as email, assembly succeeds, every Person has email None and
\* the persons are the rows valid in all three required columns.
C1_EmailOptional ==
    (/\ pc = "done"
     /\ \A key \in RequiredKeys :
           Cardinality(MatchingColumns(columnanalyses_or, key)) = 1
     /\ MatchingColumns(columnanalyses_or, "email") = {})
    => /\ interpretation.k = "ok"
       /\ \A n \in DOMAIN interpretation.v.persons :
             interpretation.v.persons[n].email = None
       /\ ToSet(PersonIndexes) =
             RoleValidRows("pnr") \cap RoleValidRows("given_name")
                 \cap RoleValidRows("family_name")

\* C4: whenever assembly succeeds, the Person.index values are strictly
\* ascending and are exactly the rows valid in the identifier, given-name and
\* family-name columns, whatever the order the roles are intersected in and
\* whatever the email column's valid rows are.
C4_PersonsAreRequiredIntersection ==
    Assembled =>
        /\ \A n \in 1..(Len(PersonIndexes) - 1) :
              PersonIndexes[n] < PersonIndexes[n + 1]
        /\ ToSet(PersonIndexes) =
              RoleValidRows("family_name") \cap RoleValidRows("pnr")
                  \cap RoleValidRows("given_name")
        /\ \A ks \in {<<"pnr", "family_name", "given_name", "email">>,
                      <<"email", "given_name", "family_name", "pnr">>,
                      <<"family_name", "email", "pnr", "given_name">>,
                      <<"given_name", "pnr", "email", "family_name">>} :
              IntersectValidRows(interpretation.v.columns, ks, None)[1]
                  = ToSet(PersonIndexes)

\* C4 witness: an assembled list that leaves a row out and keeps a row the
\* email column holds invalid.
C4_Witness ==
    /\ Assembled
    /\ Len(PersonIndexes) >= 2
    /\ Len(PersonIndexes) < Len(sheet.index)
    /\ \E n \in DOMAIN PersonIndexes : PersonIndexes[n] \notin RoleValidRows("email")

\* C5: when two or more columns classify under the same required role,
\* assembly fails with the duplicate-role diagnostic and yields no list.
C5_DuplicateRoleFails ==
    (/\ pc = "done"
     /\ \E key \in RequiredKeys :
           Cardinality(MatchingColumns(columnanalyses_or, key)) >= 2)
    => interpretation =
          Err(MultiValidationException(
                  <<ValidationException(<<"multiple columns for {key}">>, None)>>,
                  <<"No valid interpretatons">>))

\* C5 witness: two columns classified as given_name, every other role bound.
C5_Witness ==
    /\ pc = "done"
    /\ Cardinality(MatchingColumns(columnanalyses_or, "given_name")) = 2
    /\ \A key \in ToSet(Keys) : MatchingColumns(columnanalyses_or, key) # {}
    /\ interpretation.k = "err"

\* C10: every Person of an assembled list carries, under its index i, what
\* the classifiers' found_data hold for the row labelled i.
C10_PersonCarriesOwnRow ==
    Assembled =>
        \A n \in DOMAIN interpretation.v.persons :
            LET person == interpretation.v.persons[n]
                p == PositionOf(person.index)
                found(key) == interpretation.v.columns[key].interpretation.found_data[p]
            IN  /\ person.pnr = NormalizePnr(found("pnr"))
                /\ person.given_name = found("given_name")
                /\ person.family_name = found("family_name")
                /\ person.email = <<found("email")>>

-----------------------------------------------------------------------------
(* Claims about ColumnAnalysis(column), checked under SpecColumn.          *)

Succeeded(outcomes) == {i \in DOMAIN outcomes : outcomes[i].k = "ok"}

\* what the arbitration owes the outcomes of the four classifiers
ArbitratesExactlyOne(outcomes, result) ==
    LET succ == Succeeded(outcomes) IN
    /\ result.k = "ok" <=> Cardinality(succ) = 1
    /\ Cardinality(succ) = 1 =>
          result.v.interpretation = outcomes[CHOOSE i \in succ : TRUE].v
    /\ Cardinality(succ) = 0 =>
          /\ result.k = "err"
          /\ result.e.type = "MultiValidationException"
          /\ \A i \in DOMAIN outcomes :
                outcomes[i].k = "err" /\ outcomes[i].e \in result.e.multi
    /\ Cardinality(succ) >= 2 =>
          /\ result.k = "err"
          /\ result.e.type = "ValidationException"

\* C2: find_one over the four classifiers returns a classification iff
\* exactly one of them succeeds, and then that one; with no success it raises
\* a composite diagnostic holding each classifier's diagnostic, with two or
\* more a flat one.
C2_ExactlyOneClassifier ==
    pc = "columndone" => ArbitratesExactlyOne(Classifiers(column), colanalysis)

\* C2 where every classifier returned or raised a ValidationException
ArbitrationOfCompletedClassifiers ==
    (pc = "columndone" /\ Crashed(Classifiers(column)) = {})
        => ArbitratesExactlyOne(Classifiers(column), colanalysis)

\* a valid name cell, in the words of the claim
ValidNameCell(cell) ==
    /\ cell # NA
    /\ Len(strip(cell)) > 1
    /\ \A i \in DOMAIN strip(cell) : isalpha(strip(cell)[i]) \/ strip(cell)[i] = " "

NameHeader(col) ==
    /\ col.name # NA
    /\ \/ FamilyNameRE(strip(col.name))
       \/ GivenNameRE(strip(col.name))

\* what the name classifier owes a column with a name header
NameThreshold(col, result) ==
    LET valid == {col.index[p] : p \in {q \in DOMAIN col.cells : ValidNameCell(col.cells[q])}}
    IN  IF 100 * Cardinality(valid) >= 80 * Len(col.cells)
        THEN /\ result.k = "ok"
             /\ result.v.interpretation.key \in {"family_name", "given_name"}
             /\ ToSet(result.v.interpretation.valid_rows) = valid
        ELSE /\ result.k = "err"
             /\ ValidationException(
                    <<"Content of column is not mostly alphabetical", col.name>>,
                    None) \in result.e.multi

\* C8: a column with a given-name or family-name header classifies iff at
\* least 80% of all its rows are valid names, with valid_rows exactly the
\* valid rows, and otherwise fails with the content-mismatch diagnostic.
C8_NameThreshold ==
    (pc = "columndone" /\ NameHeader(column)) => NameThreshold(column, colanalysis)

\* C8 for the columns that have at least one row
NameThresholdOfNonEmptyColumns ==
    (pc = "columndone" /\ NameHeader(column) /\ Len(column.cells) > 0)
        => NameThreshold(column, colanalysis)

-----------------------------------------------------------------------------
(* SpecFile: FileAnalysis(path).  The file at path is the sequence of its  *)
(* rows, each a sequence of cells, as read_file(path, header=None) gives   *)
(* them.  Every file of the model has at least HeaderOffsets rows, so each *)
(* of the reads the source makes finds its header row.                     *)
HeaderOffsets == 4          \* range(4), line 111

Suffixes == {<<".", "x", "l", "s", "x">>, <<".", "x", "l", "s">>,
             <<".", "o", "d", "f">>, <<".", "c", "s", "v">>}

endswith(s, suffix) == HasAt(s, suffix, Len(s) - Len(suffix) + 1)

\* the header pandas gives a column whose header cell is empty
DigitChars == <<"0", "1", "2", "3", "4", "5", "6", "7", "8", "9">>
Unnamed(c) == <<"U", "n", "n", "a", "m", "e", "d", ":", " ", DigitChars[c + 1]>>

\* read_file(path, header=header) of the file with these rows; header is
\* None or <<h>>.  With header h, row h names the columns, the rows after it
\* are the data, labelled 0, 1, ..., and the rows before it are dropped.
read_file(p, rows, header) ==
    IF \A suffix \in Suffixes : ~endswith(p, suffix)
    THEN Crash("Exception")
    ELSE IF header = None
    THEN Ok([index |-> RangeIndex(Len(rows)),
             columns |-> [c \in DOMAIN rows[1] |->
                            [name |-> c - 1,
                             cells |-> [r \in DOMAIN rows |-> rows[r][c]]]]])
    ELSE LET h == header[1]
             n == Len(rows) - h - 1
         IN  Ok([index |-> RangeIndex(n),
                 columns |-> [c \in DOMAIN rows[h + 1] |->
                    [name |-> IF rows[h + 1][c] = NA THEN Unnamed(c - 1)
                              ELSE rows[h + 1][c],
                     cells |-> [r \in 1..n |-> rows[h + 1 + r][c]]]]])

\* SheetUpdater(path, orig_sheet, startrow=header_row_shift): what its
\* write_callback writes orig_sheet and the new sheet with
SheetUpdater(p, orig_sheet, startrow) ==
    [path |-> p, orig_sheet |-> orig_sheet, startrow |-> startrow]

\* SheetReadAnalysis(path, header_row_shift)
SheetReadAnalysis(p, rows, header_row_shift) ==
    LET Updater(sh, a, orig_sheet) ==
            IF orig_sheet.k # "ok" THEN orig_sheet
            ELSE Ok([sheet |-> sh.v,
                     interpretation |-> a.v,
                     fileupdater |->
                         SheetUpdater(p, orig_sheet.v, header_row_shift)])
        Analysed(sh, a) ==
            IF a.k = "err"
            THEN Err(ValidationException(
                     <<"Read with header shifted rows down failed", header_row_shift>>,
                     <<a.e>>))
            ELSE IF a.k = "crash" THEN a
            ELSE Updater(sh, a, read_file(p, rows, None))
        Read(sh) == IF sh.k # "ok" THEN sh ELSE Analysed(sh, Analysis(sh.v))
    IN  Read(read_file(p, rows, <<header_row_shift>>))

\* FileAnalysis.__init__, lines 112-125, given the four ValidOr objects
FileArbitration(interps) ==
    LET valid_interpretations == SelectSeq(interps, LAMBDA c : c.res # None) IN
    IF Len(valid_interpretations) = 0
    THEN Err(MultiValidationException(
             [i \in DOMAIN interps |-> interps[i].e[1]],
             <<"No valid interpretatons as a file with a header column">>))
    ELSE IF Len(valid_interpretations) > 1
    THEN Err(ValidationException(<<"Too many valid interpretatons">>, None))
    ELSE Ok(valid_interpretations[1].res[1])

P_csv == <<"a", ".", "c", "s", "v">>
P_txt == <<"a", ".", "t", "x", "t">>

RowGarbage == <<V_Course, NA, NA, NA>>
RowHeader  == <<H_Personnummer, H_GivenName, H_Efternamn, H_Epostadress>>
RowHeaderNoEmail == <<H_Personnummer, H_GivenName, H_Efternamn, H_Phone>>
RowDataA   == <<V_Pnr11, V_Li, V_Ek, V_Mail1>>
RowDataB   == <<V_Pnr13, V_Bo, V_AfEk, NA>>

SeqsFromTo(S, m, n) == UNION {[1..k -> S] : k \in m..n}

InputFiles ==
    {heads \o datas :
        heads \in SeqsFromTo({RowGarbage, RowHeader, RowHeaderNoEmail}, 1, MaxHead),
        datas \in SeqsFromTo({RowDataA, RowDataB}, 0, MaxData)}

InitFile ==
    /\ pc = "read"
    /\ path \in {P_csv, P_txt}
    /\ file \in {f \in InputFiles : Len(f) >= HeaderOffsets}
    /\ interpretations = <<>>
    /\ fileanalysis = Pending
    /\ IdleColumnVars /\ IdleSheetVars /\ IdleCollectorVars /\ IdlePnrVars

\* line 111: the next ValidOr(SheetReadAnalysis, path, header_row_shift=header)
SheetReadAnalysisStep ==
    /\ pc = "read"
    /\ Len(interpretations) < HeaderOffsets
    /\ LET Store(out) ==
               IF out.k = "crash"
               THEN /\ fileanalysis' = out
                    /\ pc' = "filedone"
                    /\ UNCHANGED interpretations
               ELSE /\ interpretations' = Append(interpretations, ValidOr(out))
                    /\ UNCHANGED <<pc, fileanalysis>>
       IN  Store(SheetReadAnalysis(path, file, Len(interpretations)))
    /\ UNCHANGED <<path, file, columnVars, sheetVars, collectorVars, pnrVars>>

\* lines 112-125
FileAnalysisStep ==
    /\ pc = "read"
    /\ Len(interpretations) = HeaderOffsets
    /\ fileanalysis' = FileArbitration(interpretations)
    /\ pc' = "filedone"
    /\ UNCHANGED <<path, file, interpretations, columnVars, sheetVars,
                   collectorVars, pnrVars>>

NextFile == SheetReadAnalysisStep \/ FileAnalysisStep

SpecFile == InitFile /\ [][NextFile]_vars

-----------------------------------------------------------------------------
(* Claims about FileAnalysis(path), checked under SpecFile.                *)

\* the outcome of the attempt at each offset 0..3, as element 1..4
Attempts == [n \in 1..HeaderOffsets |-> SheetReadAnalysis(path, file, n - 1)]

DiscoversExactlyOne(outcomes, result) ==
    LET succ == Succeeded(outcomes) IN
    /\ result.k = "ok" <=> Cardinality(succ) = 1
    /\ Cardinality(succ) = 1 =>
          LET n == CHOOSE i \in succ : TRUE IN
          /\ result.v = outcomes[n].v
          /\ result.v.fileupdater.startrow = n - 1
    /\ Cardinality(succ) = 0 =>
          /\ result.k = "err"
          /\ result.e.type = "MultiValidationException"
          /\ \A i \in DOMAIN outcomes :
                outcomes[i].k = "err" /\ outcomes[i].e \in result.e.multi
    /\ Cardinality(succ) >= 2 =>
          /\ result.k = "err"
          /\ result.e.type = "ValidationException"

\* C3: FileAnalysis yields a result iff exactly one of the offsets 0..3 gives
\* a valid person list, and then that offset's; with none it raises a
\* composite diagnostic holding the diagnostic of each of the four attempts,
\* with more than one a flat diagnostic.
C3_ExactlyOneOffset ==
    pc = "filedone" => DiscoversExactlyOne(Attempts, fileanalysis)

\* C3 where every attempt returned or raised a ValidationException
DiscoveryOfCompletedAttempts ==
    (pc = "filedone" /\ Crashed(Attempts) = {})
        => DiscoversExactlyOne(Attempts, fileanalysis)

\* C7: FileAnalysis returns a result or raises a ValidationException, never
\* an exception of another type.
C7_OnlyValidationExceptions ==
    pc = "filedone" =>
        \/ fileanalysis.k = "ok"
        \/ fileanalysis.k = "err" /\ IsValidationException(fileanalysis.e)

\* the three outcomes of header discovery that end in a ValidationException
\* or a result are all reached
UniqueOffsetReached == pc = "filedone" /\ fileanalysis.k = "ok"
NoOffsetReached ==
    /\ pc = "filedone" /\ fileanalysis.k = "err"
    /\ fileanalysis.e.type = "MultiValidationException"
AmbiguousOffsetReached ==
    /\ pc = "filedone" /\ fileanalysis.k = "err"
    /\ fileanalysis.e.type = "ValidationException"

-----------------------------------------------------------------------------
(* SpecPnr: the identifier normalisation of Person.__init__ applied twice. *)
Centuries == {<<>>, <<"1", "9">>, <<"2", "0">>}
DateParts == {<<"9", "0", "0", "1", "0", "1">>, <<"9", "0", "0", "1">>}
Separators == {<<>>, <<"-">>, <<" ">>}

InputIdents ==
    {c \o d \o sep \o suffix :
        c \in Centuries, d \in DateParts, sep \in Separators,
        suffix \in SeqsUpTo({"1", "T", "F"}, MaxSuffix)}

InitPnr ==
    /\ pc = "pnr0"
    /\ ident \in InputIdents
    /\ pnr1 = <<>> /\ pnr2 = <<>>
    /\ IdleColumnVars /\ IdleSheetVars /\ IdleFileVars /\ IdleCollectorVars

NormalizeOnce ==
    /\ pc = "pnr0"
    /\ pnr1' = NormalizePnr(ident)
    /\ pc' = "pnr1"
    /\ UNCHANGED <<ident, pnr2, columnVars, sheetVars, fileVars, collectorVars>>

NormalizeTwice ==
    /\ pc = "pnr1"
    /\ pnr2' = NormalizePnr(pnr1)
    /\ pc' = "pnr2"
    /\ UNCHANGED <<ident, pnr1, columnVars, sheetVars, fileVars, collectorVars>>

NextPnr == NormalizeOnce \/ NormalizeTwice

SpecPnr == InitPnr /\ [][NextPnr]_vars

\* C9: normalising an already normalised identifier returns it unchanged.
C9_NormalizeIdempotent == pc = "pnr2" => pnr2 = pnr1

\* C9 witness: an identifier that lost its century digits and its TF suffix,
\* normalised again.
C9_Witness ==
    /\ pc = "pnr2"
    /\ Len(remove(remove(ident, "-"), " ")) = 12
    /\ Len(pnr1) = 6

-----------------------------------------------------------------------------
(* SpecCollector: ResultCollector.set_results on a table.  A table is      *)
(* [columns, index, data]: the column names in order, the row labels, and  *)
(* per column name the value at each row label.                            *)
ResultKeys   == {"grade", "comment"}
ResultValues == {"A", "B"}

Table(columns, index, data) == [columns |-> columns, index |-> index, data |-> data]

OriginalTables ==
    {Table(<<"Personnummer", "Namn">>, index,
           [name \in {"Personnummer", "Namn"} |->
               [i \in ToSet(index) |-> <<name, i>>]]) :
        index \in {<<0, 1>>, <<0, 1, 2>>, <<3, 5>>}}

\* results.assign(**{key: col}): a new column is appended, an old one replaced
assign(tbl, key, col) ==
    Table(IF key \in ToSet(tbl.columns) THEN tbl.columns ELSE Append(tbl.columns, key),
          tbl.index,
          [name \in ToSet(tbl.columns) \cup {key} |->
              IF name = key THEN col ELSE tbl.data[name]])

\* line 102 with the new column filled with the missing value
AssignMissing(tbl, key) == assign(tbl, key, [i \in ToSet(tbl.index) |-> "NaN"])

\* line 102: results.assign(**{key: ""})
AssignEmpty(tbl, key) == assign(tbl, key, [i \in ToSet(tbl.index) |-> ""])

\* lines 100-105, for the keyword arguments in call order
RECURSIVE ApplyResults(_, _, _)
ApplyResults(tbl, row, new_results) ==
    IF new_results = <<>> THEN tbl
    ELSE LET key == new_results[1][1]
             t1 == IF key \notin ToSet(tbl.columns) THEN AssignEmpty(tbl, key) ELSE tbl
             col == [t1.data[key] EXCEPT ![row] = new_results[1][2]]
         IN  ApplyResults(assign(t1, key, col), row, Tail(new_results))

\* keyword arguments: distinct keys, each with a value, in any order
KeywordArgs ==
    {kv \in SeqsUpTo(ResultKeys \X ResultValues, Cardinality(ResultKeys)) :
        \A i, j \in DOMAIN kv : i # j => kv[i][1] # kv[j][1]}

InitCollector ==
    /\ pc = "collect"
    /\ sheet \in OriginalTables         \* ResultCollector.sheet
    /\ results = sheet                  \* self.results = self.sheet
    /\ written = None /\ ncallbacks = 0 /\ ncalls = 0 /\ latest = <<>>
    /\ columnanalyses_or = <<>> /\ interpretation = Pending
    /\ IdleColumnVars /\ IdleFileVars /\ IdlePnrVars

\* ResultCollector.set_results(row, **new_results), lines 99-107, with
\* SheetUpdater's write_callback receiving the table
set_results(row, new_results) ==
    /\ results' = ApplyResults(results, row, new_results)
    /\ written' = <<results'>>
    /\ ncallbacks' = ncallbacks + 1

SetResults ==
    /\ pc = "collect"
    /\ ncalls < MaxCalls
    /\ \E row \in ToSet(results.index), new_results \in KeywordArgs :
          /\ set_results(row, new_results)
          /\ latest' = [c \in DOMAIN latest \cup
                                {<<row, new_results[i][1]>> : i \in DOMAIN new_results} |->
                           IF \E i \in DOMAIN new_results : c = <<row, new_results[i][1]>>
                           THEN new_results[CHOOSE i \in DOMAIN new_results :
                                                c = <<row, new_results[i][1]>>][2]
                           ELSE latest[c]]
    /\ ncalls' = ncalls + 1
    /\ UNCHANGED <<pc, sheet, columnanalyses_or, interpretation, columnVars,
                   fileVars, pnrVars>>

NextCollector == SetResults

SpecCollector == InitCollector /\ [][NextCollector]_vars

KeysWritten == {c[2] : c \in DOMAIN latest}

\* C6: the table handed to the callback by the latest call is the original
\* table, every original cell unchanged, plus one column per key ever
\* written, holding the most recent value of each written cell and the empty
\* string elsewhere; the callback ran once per call, on the updated table.
C6_WrittenTable ==
    (pc = "collect" /\ ncalls > 0) =>
        /\ ncallbacks = ncalls
        /\ written = <<results>>
        /\ LET t == written[1] IN
           /\ t.index = sheet.index
           /\ SubSeq(t.columns, 1, Len(sheet.columns)) = sheet.columns
           /\ Len(t.columns) = Len(sheet.columns) + Cardinality(KeysWritten)
           /\ ToSet(t.columns) = ToSet(sheet.columns) \cup KeysWritten
           /\ \A name \in ToSet(sheet.columns) : t.data[name] = sheet.data[name]
           /\ \A key \in KeysWritten : \A i \in ToSet(t.index) :
                 t.data[key][i] = IF <<i, key>> \in DOMAIN latest
                                  THEN latest[<<i, key>>] ELSE ""

\* C6 witness: after three calls a cell was overwritten, another column has
\* a cell that was never written.
C6_Witness ==
    /\ pc = "collect" /\ ncalls = 3
    /\ KeysWritten = ResultKeys
    /\ \E i \in ToSet(results.index) :
          /\ <<i, "grade">> \in DOMAIN latest
          /\ <<i, "comment">> \notin DOMAIN latest
          /\ results.data["comment"][i] = ""

=============================================================================
